---- MODULE Spec2Model ----
(***************************************************************************)
(* Vault Review plugin (src/main.ts, the later of the two versions the     *)
(* file holds, lines 662-1305): the snapshot of tracked files held in the  *)
(* plugin settings, the handlers that change it, whether the status bar    *)
(* item is displayed (its text and check marks are presentation and are    *)
(* left out), the confirmation dialog of deleteSnapshot and the durable    *)
(* copy written by saveSettings.                                           *)
(*                                                                         *)
(* Host behaviour the source relies on and the model assumes:              *)
(*  - the host delivers the next event (a vault notification, a command,   *)
(*    a click) once the handler of the previous one has settled, i.e. no   *)
(*    saveData call is still in flight;                                    *)
(*  - saveData serialises its argument when it is called and the writes    *)
(*    complete in the order they were issued;                              *)
(*  - an open Modal blocks the plugin's commands, ribbon, status bar and   *)
(*    settings buttons and the opening of another file, but not the        *)
(*    vault's rename and delete notifications;                             *)
(*  - the listing getMarkdownFiles returns the notes in a fixed order.     *)
(*                                                                         *)
(* The last part of the module (SpecEarly) is the earlier version, lines   *)
(* 1-660, as far as the display of the status bar item goes.               *)
(***************************************************************************)
EXTENDS Integers, Sequences, FiniteSets, TLC

\* ---------------------------------------------------------------- bounds
\* Longest snapshot.files the model lets grow (appends are disabled beyond).
MaxFiles == 2

\* The paths a vault file can have; PathSeq is the host's listing order.
PathSeq == <<"a.md", "b.md", "n.txt">>
Paths == {PathSeq[i] : i \in 1..Len(PathSeq)}
MdPaths == {"a.md", "b.md"}

\* The readings of the host clock (new Date()).
Times == {1}

NoFile == "null"

\* ---------------------------------------------------------------- state
VARIABLES
    vault,         \* paths of the files the vault holds
    active,        \* app.workspace.getActiveFile(): a path or NoFile
    snapshot,      \* settings.snapshot (present = FALSE: undefined)
    showStatusBar, \* settings.settings.showStatusBar
    statusBar,     \* the status bar item is displayed (inline-flex)
    dialog,        \* ConfirmSnapshotDeleteModal: closed, open, deleting
    completer,     \* the promise of the deleteSnapshot call under way
    saves,         \* saveData calls in flight, oldest first
    durable,       \* the data saveData has written
    last,          \* the handler that ran last
    notices,       \* the Notices that handler showed
    randomFile,    \* the file openRandomFile picked in that handler
    opened         \* the path that handler passed to leaf.openFile

vars == <<vault, active, snapshot, showStatusBar, statusBar, dialog,
          completer, saves, durable, last, notices, randomFile, opened>>

\* ---------------------------------------------------------------- types
SnapshotFileStatus == {"to_review", "reviewed", "deleted"}
FileStatus == {"new"} \cup SnapshotFileStatus

toFile(path, status) == [path |-> path, status |-> status]

NoSnapshot == [present |-> FALSE, files |-> <<>>, createdAt |-> 0]

DEFAULT_SETTINGS == [snapshot |-> NoSnapshot, showStatusBar |-> TRUE]

NoPick == toFile(NoFile, "new")

\* ---------------------------------------------------------------- queries
\* vault.getMarkdownFiles(): the notes of the vault, in listing order.
getMarkdownFiles(vlt) ==
    LET IsNote(p) == p \in vlt /\ p \in MdPaths
    IN SelectSeq(PathSeq, IsNote)

\* Mutant of getActiveFile: the active file whatever its extension, as the
\* earlier version has it (lines 137-139).
getActiveFileAnyExtension(act) == act

\* getActiveFile: null unless the active file has the extension md.
getActiveFile(act) == IF act \in MdPaths THEN act ELSE NoFile

\* getSnapshotFile: the index of the first entry with that path, 0 for
\* undefined (no path, no snapshot, or no such entry).
getSnapshotFile(snap, path) ==
    IF path = NoFile \/ ~snap.present THEN 0
    ELSE LET hits == {i \in 1..Len(snap.files) : snap.files[i].path = path}
         IN IF hits = {} THEN 0
            ELSE CHOOSE i \in hits : \A j \in hits : i <= j

\* getSnapshotFile(path)?.status ?? "new"
getStatus(snap, path) ==
    LET i == getSnapshotFile(snap, path)
    IN IF i = 0 THEN "new" ELSE snap.files[i].status

\* getActiveFileStatus: "undefined" without an active note.
getActiveFileStatus(snap, act) ==
    IF getActiveFile(act) = NoFile THEN "undefined"
    ELSE getStatus(snap, getActiveFile(act))

\* Mutant of getToReviewFiles: every entry not reviewed is taken, as a filter
\* written before the deleted status existed would do.
getToReviewFilesNotReviewed(snap) ==
    LET NotReviewed(f) == f.status # "reviewed"
    IN IF snap.present THEN SelectSeq(snap.files, NotReviewed) ELSE <<>>

getToReviewFiles(snap) ==
    LET IsToReview(f) == f.status = "to_review"
    IN IF snap.present THEN SelectSeq(snap.files, IsToReview) ELSE <<>>

\* The commands with a checkCallback, and what it returns when checking.
CheckedCommands ==
    {"complete-review", "complete-review-and-open-next", "unreview-file"}

checkCallback(id, snap, act) ==
    IF id = "unreview-file"
    THEN getActiveFileStatus(snap, act) = "reviewed"
    ELSE getActiveFileStatus(snap, act) = "to_review"

\* saveSettings: saveData(this.settings) serialises the settings now.
saveSettings(snap, show) == [snapshot |-> snap, showStatusBar |-> show]

\* StatusBar.setIsVisible: whether the item is displayed afterwards.
setIsVisible(snap, isVisible) == snap.present /\ isVisible

\* StatusBar.update: whether the item is displayed afterwards.
update(snap, act, show) ==
    IF ~snap.present THEN setIsVisible(snap, FALSE)
    ELSE IF getActiveFileStatus(snap, act) \in {"undefined", "deleted"}
         THEN setIsVisible(snap, FALSE)
         ELSE setIsVisible(snap, show)

\* ---------------------------------------------------------------- store
\* What a handler leaves in settings.snapshot and what it shows, opens and
\* saves, as the source computes it.

\* Mutant of setStatus: the untracked path is put in front (unshift for push).
setStatusUnshift(snap, path, status) ==
    LET snapshotFile == getSnapshotFile(snap, path)
    IN IF snapshotFile = 0
       THEN IF snap.present
            THEN [snap EXCEPT !.files = <<toFile(path, status)>> \o @]
            ELSE snap
       ELSE [snap EXCEPT !.files[snapshotFile].status = status]

\* Mutant of setStatus: the entry found is taken out and put at the end with
\* the status.
setStatusMovesToEnd(snap, path, status) ==
    LET snapshotFile == getSnapshotFile(snap, path)
        rest == [i \in 1..(Len(snap.files) - 1) |->
                    IF i < snapshotFile THEN snap.files[i]
                    ELSE snap.files[i + 1]]
    IN IF snapshotFile = 0
       THEN IF snap.present
            THEN [snap EXCEPT !.files = Append(@, toFile(path, status))]
            ELSE snap
       ELSE [snap EXCEPT !.files = Append(rest, toFile(path, status))]

\* completeReview / unreviewFile, lines 899-906 and 922-929: the entry found
\* gets the status; a path not found is pushed (onto a snapshot that exists).
setStatus(snap, path, status) ==
    LET snapshotFile == getSnapshotFile(snap, path)
    IN IF snapshotFile = 0
       THEN IF snap.present
            THEN [snap EXCEPT !.files = Append(@, toFile(path, status))]
            ELSE snap
       ELSE [snap EXCEPT !.files[snapshotFile].status = status]

\* The notice of lines 902 and 925.
addedNotice(snap, path, text) ==
    IF getSnapshotFile(snap, path) = 0 THEN <<text>> ELSE <<>>

\* focusFile: what it does with the file it is given. saved counts its
\* saveSettings calls.
focusFile(snap, vlt, file) ==
    IF file.path \in vlt
    THEN [snapshot |-> snap, notices |-> <<>>, opened |-> file.path,
          saved |-> 0]
    ELSE LET Other(fp) == fp.path # file.path
         IN [snapshot |-> IF snap.present
                          THEN [snap EXCEPT !.files = SelectSeq(@, Other)]
                          ELSE snap,
             notices |-> <<"Cannot find a file " \o file.path>>,
             opened |-> NoFile,
             saved |-> IF snap.present THEN 1 ELSE 0]

\* The values Math.floor(Math.random() * files.length) + 1 can take.
RandomIndices(snap) ==
    IF getToReviewFiles(snap) = <<>> THEN {1}
    ELSE 1..Len(getToReviewFiles(snap))

\* Mutant of openRandomFile: the check for a snapshot (lines 854-857) is
\* left out.
openRandomFileUnchecked(snap, vlt, k) ==
    LET files == getToReviewFiles(snap)
    IN IF Len(files) = 0
       THEN [snapshot |-> snap, opened |-> NoFile, saved |-> 0,
             notices |-> <<"All files are reviewed">>,
             randomFile |-> NoPick]
       ELSE LET f == focusFile(snap, vlt, files[k])
            IN [snapshot |-> f.snapshot, opened |-> f.opened,
                saved |-> f.saved, notices |-> f.notices,
                randomFile |-> files[k]]

\* openRandomFile, with k the index the random number selects.
openRandomFile(snap, vlt, k) ==
    IF ~snap.present
    THEN [snapshot |-> snap, opened |-> NoFile, saved |-> 0,
          notices |-> <<"Vault review snapshot is not created">>,
          randomFile |-> NoPick]
    ELSE LET files == getToReviewFiles(snap)
         IN IF Len(files) = 0
            THEN [snapshot |-> snap, opened |-> NoFile, saved |-> 0,
                  notices |-> <<"All files are reviewed">>,
                  randomFile |-> NoPick]
            ELSE LET f == focusFile(snap, vlt, files[k])
                 IN [snapshot |-> f.snapshot, opened |-> f.opened,
                     saved |-> f.saved, notices |-> f.notices,
                     randomFile |-> files[k]]

\* completeReview({file, openNext}) with file.path = path (NoFile: there is
\* no active note); k is the random index of its openRandomFile call.
completeReview(snap, vlt, path, openNext, k) ==
    LET marked == setStatus(snap, path, "reviewed")
        added == addedNotice(snap, path,
                     "File was added to snapshot and marked as reviewed")
        next == openRandomFile(marked, vlt, k)
    IN IF path = NoFile
       THEN [snapshot |-> snap, notices |-> <<>>, randomFile |-> NoPick,
             opened |-> NoFile, saved |-> 0]
       ELSE IF openNext
            THEN [snapshot |-> next.snapshot,
                  notices |-> added \o next.notices,
                  randomFile |-> next.randomFile,
                  opened |-> next.opened,
                  saved |-> next.saved + 1]
            ELSE [snapshot |-> marked, notices |-> added,
                  randomFile |-> NoPick, opened |-> NoFile, saved |-> 1]

\* unreviewFile(file) with file.path = path.
unreviewFile(snap, path) ==
    IF path = NoFile
    THEN [snapshot |-> snap, notices |-> <<>>, saved |-> 0]
    ELSE [snapshot |-> setStatus(snap, path, "to_review"),
          notices |-> addedNotice(snap, path,
                        "File was added to snapshot and marked as not reviewed"),
          saved |-> 1]

\* handleFileRename: the first entry with the old path gets the new one.
handleFileRename(snap, oldPath, newPath) ==
    LET snapshotFile == getSnapshotFile(snap, oldPath)
    IN IF snapshotFile = 0 THEN snap
       ELSE [snap EXCEPT !.files[snapshotFile].path = newPath]

\* Mutant of handleFileDelete: the entries with the path are removed, as the
\* earlier version of the handler does (lines 184-186).
handleFileDeleteDrops(snap, path) ==
    LET Other(f) == f.path # path
    IN IF snap.present THEN [snap EXCEPT !.files = SelectSeq(@, Other)]
       ELSE snap

\* handleFileDelete: the first entry with the path is marked deleted.
handleFileDelete(snap, path) ==
    LET snapshotFile == getSnapshotFile(snap, path)
    IN IF snapshotFile = 0 THEN snap
       ELSE [snap EXCEPT !.files[snapshotFile].status = "deleted"]

\* Mutant of newVaultFiles: every note of the vault, tracked or not.
newVaultFilesAll(snap, vlt) ==
    LET paths == getMarkdownFiles(vlt)
    IN [i \in 1..Len(paths) |-> toFile(paths[i], "to_review")]

\* "Add all new files to snapshot": the notes no entry has the path of.
newVaultFiles(snap, vlt) ==
    LET IsNew(p) == \A i \in 1..Len(snap.files) : snap.files[i].path # p
        paths == SelectSeq(getMarkdownFiles(vlt), IsNew)
    IN [i \in 1..Len(paths) |-> toFile(paths[i], "to_review")]

\* Mutant of addNewFiles: the new entries are put in front.
addNewFilesPrepends(snap, vlt) ==
    IF snap.present
    THEN [snap EXCEPT !.files = newVaultFiles(snap, vlt) \o @]
    ELSE snap

addNewFiles(snap, vlt) ==
    IF snap.present
    THEN [snap EXCEPT !.files = @ \o newVaultFiles(snap, vlt)]
    ELSE snap

\* Mutant of createSnapshot: the entries in the reverse of the listing order.
createSnapshotReversed(vlt, now) ==
    LET notes == getMarkdownFiles(vlt)
        n == Len(notes)
    IN [present |-> TRUE,
        files |-> [i \in 1..n |-> toFile(notes[n + 1 - i], "to_review")],
        createdAt |-> now]

\* Mutant of showsCreateSnapshot: the button is rendered whatever the
\* settings hold.
showsCreateSnapshotAlways(snap) == TRUE

\* display: "Create snapshot" is rendered in the else branch of
\* `if (snapshot)`, "Delete snapshot" and "Add all new files" in the other.
showsCreateSnapshot(snap) == ~snap.present

\* "Create snapshot": one entry per note, in listing order.
createSnapshot(vlt, now) ==
    LET notes == getMarkdownFiles(vlt)
    IN [present |-> TRUE,
        files |-> [i \in 1..Len(notes) |-> toFile(notes[i], "to_review")],
        createdAt |-> now]

\* Mutant of onDelete: the entries are cleared and the snapshot is kept.
onDeleteKeepsSnapshot(snap) == [snap EXCEPT !.files = <<>>]

\* onDelete, line 946.
onDelete(snap) == NoSnapshot

\* onCancel: the snapshot it leaves.
onCancel(snap) == snap

\* Promise resolve: only the first call settles the promise.
resolve(promise, value) == IF promise = "pending" THEN value ELSE promise

\* FileStatusControllerModal.getSuggestions with an empty query.
getSuggestions(snap, act) ==
    IF getActiveFile(act) = NoFile THEN {"open_random"}
    ELSE IF getStatus(snap, getActiveFile(act)) = "reviewed"
         THEN {"open_random", "unreview"}
         ELSE {"review_and_next", "review", "open_random"}

\* Statistics of the settings tab (display, "Snapshot info").
CountStatus(snap, status) ==
    Cardinality({i \in 1..Len(snap.files) : snap.files[i].status = status})

allFilesLength(vlt) == Len(getMarkdownFiles(vlt))
snapshotFilesLength(snap) == Len(snap.files)
deletedFilesLength(snap) == CountStatus(snap, "deleted")
reviewedFilesLength(snap) == CountStatus(snap, "reviewed")
notInSnapshotLength(snap, vlt) ==
    allFilesLength(vlt) - snapshotFilesLength(snap) + deletedFilesLength(snap)
\* Mutant of toReviewFilesLength: the earlier version's count (line 510),
\* which knows no deleted entries.
toReviewFilesLengthEarly(snap) ==
    snapshotFilesLength(snap) - reviewedFilesLength(snap)

toReviewFilesLength(snap) ==
    snapshotFilesLength(snap) - reviewedFilesLength(snap)
        - deletedFilesLength(snap)

\* ---------------------------------------------------------------- steps
\* No saveData call is in flight: the previous handler has settled.
Idle == saves = <<>>

\* Commands, ribbon, status bar and settings buttons can be used.
UiFree == Idle /\ dialog = "closed"

\* n saveData calls made one after the other with the same settings.
Saves(n, snap, show, then) ==
    [i \in 1..n |-> [data |-> saveSettings(snap, show),
                     then |-> IF i = n THEN then ELSE "none"]]

\* The promise of a deleteSnapshot call is of use to its caller until the
\* dialog has ended and the next handler runs.
Forget(promise) == IF dialog = "closed" THEN "none" ELSE promise

\* What a handler that picks and opens no file records.
Ran(op, shown) ==
    /\ last' = op
    /\ notices' = shown
    /\ randomFile' = NoPick
    /\ opened' = NoFile

Init ==
    /\ vault \in SUBSET Paths
    /\ active = NoFile
    /\ snapshot = DEFAULT_SETTINGS.snapshot
    /\ showStatusBar = DEFAULT_SETTINGS.showStatusBar
    /\ statusBar = update(NoSnapshot, NoFile, TRUE)
    /\ dialog = "closed"
    /\ completer = "none"
    /\ saves = <<>>
    /\ durable = DEFAULT_SETTINGS
    /\ last = "onload"
    /\ notices = <<>>
    /\ randomFile = NoPick
    /\ opened = NoFile

\* ---------------------------------------------------------------- handlers
\* completeReview({openNext}) on the active note.
CompleteReview(openNext, k) ==
    LET r == completeReview(snapshot, vault, getActiveFile(active), openNext, k)
    IN /\ k \in (IF openNext /\ getActiveFile(active) # NoFile
                 THEN RandomIndices(setStatus(snapshot, getActiveFile(active),
                                              "reviewed"))
                 ELSE {1})
       /\ Len(setStatus(snapshot, getActiveFile(active), "reviewed").files)
             <= MaxFiles
       /\ last' = "completeReview"
       /\ snapshot' = r.snapshot
       /\ notices' = r.notices
       /\ randomFile' = r.randomFile
       /\ opened' = r.opened
       /\ statusBar' = IF r.saved > 0
                       THEN update(r.snapshot, active, showStatusBar)
                       ELSE statusBar
       /\ saves' = Saves(r.saved, r.snapshot, showStatusBar, "none")
       /\ completer' = Forget(completer)
       /\ UNCHANGED <<vault, active, showStatusBar, dialog, durable>>

\* unreviewFile() on the active note.
UnreviewFile ==
    LET r == unreviewFile(snapshot, getActiveFile(active))
    IN /\ Len(r.snapshot.files) <= MaxFiles
       /\ Ran("unreviewFile", r.notices)
       /\ snapshot' = r.snapshot
       /\ statusBar' = IF r.saved > 0
                       THEN update(r.snapshot, active, showStatusBar)
                       ELSE statusBar
       /\ saves' = Saves(r.saved, r.snapshot, showStatusBar, "none")
       /\ completer' = Forget(completer)
       /\ UNCHANGED <<vault, active, showStatusBar, dialog, durable>>

\* openRandomFile() called on its own (command or picker).
OpenRandomFile(k) ==
    LET r == openRandomFile(snapshot, vault, k)
    IN /\ k \in RandomIndices(snapshot)
       /\ last' = "openRandomFile"
       /\ snapshot' = r.snapshot
       /\ notices' = r.notices
       /\ randomFile' = r.randomFile
       /\ opened' = r.opened
       /\ statusBar' = IF r.saved > 0
                       THEN update(r.snapshot, active, showStatusBar)
                       ELSE statusBar
       /\ saves' = Saves(r.saved, r.snapshot, showStatusBar, "none")
       /\ completer' = Forget(completer)
       /\ UNCHANGED <<vault, active, showStatusBar, dialog, durable>>

\* ---------------------------------------------------------------- commands
\* "Open random not reviewed file"
CommandOpenRandomFile ==
    /\ UiFree
    /\ \E k \in 1..MaxFiles : OpenRandomFile(k)

\* "Review file" and "Review file and open next random file"
CommandCompleteReview ==
    /\ UiFree
    /\ \E openNext \in BOOLEAN, k \in 1..MaxFiles :
          /\ checkCallback(IF openNext THEN "complete-review-and-open-next"
                                       ELSE "complete-review",
                           snapshot, active)
          /\ CompleteReview(openNext, k)

\* "Unreview file"
CommandUnreviewFile ==
    /\ UiFree
    /\ checkCallback("unreview-file", snapshot, active)
    /\ UnreviewFile

\* StatusBar.onClick, item "Reviewed"
StatusBarReviewed ==
    /\ UiFree
    /\ statusBar
    /\ CompleteReview(FALSE, 1)

\* StatusBar.onClick, item "Not reviewed"
StatusBarNotReviewed ==
    /\ UiFree
    /\ statusBar
    /\ UnreviewFile

\* openFileStatusController without a snapshot (ribbon icon).
ControllerNoSnapshot ==
    /\ UiFree
    /\ ~snapshot.present
    /\ Ran("openFileStatusController",
           <<"Vault review snapshot is not created">>)
    /\ completer' = Forget(completer)
    /\ UNCHANGED <<vault, active, snapshot, showStatusBar, statusBar, dialog,
                   saves, durable>>

\* openFileStatusController with a snapshot: the picker opens and the user
\* chooses one of its suggestions (onChooseSuggestion).
ControllerChoose ==
    /\ UiFree
    /\ snapshot.present
    /\ \E action \in getSuggestions(snapshot, active), k \in 1..MaxFiles :
          CASE action = "open_random" -> OpenRandomFile(k)
            [] action = "review" -> k = 1 /\ CompleteReview(FALSE, 1)
            [] action = "review_and_next" -> CompleteReview(TRUE, k)
            [] action = "unreview" -> k = 1 /\ UnreviewFile

\* ---------------------------------------------------------------- settings tab
\* Button "Create snapshot" (shown while there is no snapshot).
CreateSnapshot ==
    /\ UiFree
    /\ showsCreateSnapshot(snapshot)
    /\ \E now \in Times : snapshot' = createSnapshot(vault, now)
    /\ Len(snapshot'.files) <= MaxFiles
    /\ statusBar' = update(snapshot', active, showStatusBar)
    /\ saves' = Saves(1, snapshot', showStatusBar, "none")
    /\ Ran("createSnapshot", <<>>)
    /\ completer' = Forget(completer)
    /\ UNCHANGED <<vault, active, showStatusBar, dialog, durable>>

\* Button "Add all new files to snapshot" (shown while there is a snapshot).
AddNewFiles ==
    /\ UiFree
    /\ snapshot.present
    /\ snapshot' = addNewFiles(snapshot, vault)
    /\ Len(snapshot'.files) <= MaxFiles
    /\ statusBar' = update(snapshot', active, showStatusBar)
    /\ saves' = Saves(1, snapshot', showStatusBar, "none")
    /\ Ran("addNewFiles", <<>>)
    /\ completer' = Forget(completer)
    /\ UNCHANGED <<vault, active, showStatusBar, dialog, durable>>

\* Toggle "Status bar"
ToggleStatusBar ==
    /\ UiFree
    /\ showStatusBar' = ~showStatusBar
    /\ statusBar' = update(snapshot, active, showStatusBar')
    /\ saves' = Saves(1, snapshot, showStatusBar', "none")
    /\ Ran("toggleStatusBar", <<>>)
    /\ completer' = Forget(completer)
    /\ UNCHANGED <<vault, active, snapshot, dialog, durable>>

\* The trash button: deleteSnapshot() with askForConfirmation as given.
deleteSnapshot(askForConfirmation) ==
    /\ UiFree
    /\ snapshot.present
    /\ completer' = "pending"
    /\ Ran("deleteSnapshot", <<>>)
    /\ IF askForConfirmation
       THEN /\ dialog' = "open"
            /\ UNCHANGED <<snapshot, statusBar, saves>>
       ELSE /\ snapshot' = onDelete(snapshot)
            /\ statusBar' = update(snapshot', active, showStatusBar)
            /\ saves' = Saves(1, snapshot', showStatusBar, "resolve")
            /\ UNCHANGED dialog
    /\ UNCHANGED <<vault, active, showStatusBar, durable>>

\* Button "Cancel" of the dialog: onCancel, then close.
ModalCancel ==
    /\ Idle
    /\ dialog = "open"
    /\ snapshot' = onCancel(snapshot)
    /\ completer' = resolve(completer, "cancelled")
    /\ dialog' = "closed"
    /\ Ran("onCancel", <<>>)
    /\ UNCHANGED <<vault, active, showStatusBar, statusBar, saves, durable>>

\* Button "Delete" of the dialog: onDelete up to its await.
ModalDelete ==
    /\ Idle
    /\ dialog = "open"
    /\ snapshot' = onDelete(snapshot)
    /\ statusBar' = update(snapshot', active, showStatusBar)
    /\ saves' = Saves(1, snapshot', showStatusBar, "resolve")
    /\ dialog' = "deleting"
    /\ Ran("onDelete", <<>>)
    /\ UNCHANGED <<vault, active, showStatusBar, completer, durable>>

\* The dialog is dismissed (Escape, the close button, a click outside):
\* Modal.close() runs and neither callback does.
ModalDismiss ==
    /\ Idle
    /\ dialog = "open"
    /\ dialog' = "closed"
    /\ Ran("close", <<>>)
    /\ UNCHANGED <<vault, active, snapshot, showStatusBar, statusBar,
                   completer, saves, durable>>

\* ---------------------------------------------------------------- host
\* The oldest saveData call completes; what awaited it continues: onDelete
\* resolves the promise and the "Delete" button closes the dialog.
SaveComplete ==
    /\ saves # <<>>
    /\ durable' = Head(saves).data
    /\ saves' = Tail(saves)
    /\ IF Head(saves).then = "resolve"
       THEN /\ completer' = resolve(completer, "deleted")
            /\ dialog' = "closed"
            /\ Ran("resolve", <<>>)
       ELSE /\ UNCHANGED <<completer, dialog>>
            /\ Ran("saveData", <<>>)
    /\ UNCHANGED <<vault, active, snapshot, showStatusBar, statusBar>>

\* A file is created in the vault: the plugin listens to no such event.
VaultCreate ==
    /\ Idle
    /\ \E p \in Paths \ vault : vault' = vault \cup {p}
    /\ Ran("create", <<>>)
    /\ completer' = Forget(completer)
    /\ UNCHANGED <<active, snapshot, showStatusBar, statusBar, dialog, saves,
                   durable>>

\* vault "rename" of a file.
VaultRename ==
    /\ Idle
    /\ \E oldPath \in vault, newPath \in Paths \ vault :
          /\ vault' = (vault \ {oldPath}) \cup {newPath}
          /\ active' = IF active = oldPath THEN newPath ELSE active
          /\ snapshot' = handleFileRename(snapshot, oldPath, newPath)
          /\ saves' = IF getSnapshotFile(snapshot, oldPath) # 0
                      THEN Saves(1, snapshot', showStatusBar, "none")
                      ELSE <<>>
    /\ Ran("handleFileRename", <<>>)
    /\ completer' = Forget(completer)
    /\ UNCHANGED <<showStatusBar, statusBar, dialog, durable>>

\* vault "delete" of a file.
VaultDelete ==
    /\ Idle
    /\ \E path \in vault :
          /\ vault' = vault \ {path}
          /\ active' = IF active = path THEN NoFile ELSE active
          /\ snapshot' = handleFileDelete(snapshot, path)
          /\ IF getSnapshotFile(snapshot, path) # 0
             THEN /\ statusBar' = update(snapshot', active', showStatusBar)
                  /\ saves' = Saves(1, snapshot', showStatusBar, "none")
             ELSE UNCHANGED <<statusBar, saves>>
    /\ Ran("handleFileDelete", <<>>)
    /\ completer' = Forget(completer)
    /\ UNCHANGED <<showStatusBar, dialog, durable>>

\* vault "rename" or "delete" of a folder: both handlers return at once.
VaultFolderEvent ==
    /\ Idle
    /\ Ran("folder", <<>>)
    /\ completer' = Forget(completer)
    /\ UNCHANGED <<vault, active, snapshot, showStatusBar, statusBar, dialog,
                   saves, durable>>

\* Mutant of FileOpen: a note opened that has no entry is given one.
FileOpenAddsFile ==
    /\ UiFree
    /\ \E file \in (vault \cup {NoFile}) \ {active} : active' = file
    /\ snapshot' = IF getActiveFile(active') # NoFile
                      /\ Len(snapshot.files) < MaxFiles
                   THEN setStatus(snapshot, active', "to_review")
                   ELSE snapshot
    /\ statusBar' = update(snapshot', active', showStatusBar)
    /\ Ran("file-open", <<>>)
    /\ completer' = Forget(completer)
    /\ UNCHANGED <<vault, showStatusBar, dialog, saves, durable>>

\* workspace "file-open": another file (or none) becomes the active one.
FileOpen ==
    /\ UiFree
    /\ \E file \in (vault \cup {NoFile}) \ {active} : active' = file
    /\ statusBar' = update(snapshot, active', showStatusBar)
    /\ Ran("file-open", <<>>)
    /\ completer' = Forget(completer)
    /\ UNCHANGED <<vault, snapshot, showStatusBar, dialog, saves, durable>>

\* The plugin is loaded again (onload) after a time in which it was not
\* running and at most one file left the vault unobserved.
onload ==
    /\ UiFree
    /\ \E gone \in SUBSET vault :
          /\ Cardinality(gone) <= 1
          /\ vault' = vault \ gone
    /\ active' = NoFile
    /\ snapshot' = durable.snapshot
    /\ showStatusBar' = durable.showStatusBar
    /\ statusBar' = update(snapshot', NoFile, showStatusBar')
    /\ completer' = "none"
    /\ Ran("onload", <<>>)
    /\ UNCHANGED <<dialog, saves, durable>>

Next ==
    \/ CommandOpenRandomFile
    \/ CommandCompleteReview
    \/ CommandUnreviewFile
    \/ StatusBarReviewed
    \/ StatusBarNotReviewed
    \/ ControllerNoSnapshot
    \/ ControllerChoose
    \/ CreateSnapshot
    \/ AddNewFiles
    \/ ToggleStatusBar
    \/ deleteSnapshot(TRUE)
    \/ ModalCancel
    \/ ModalDelete
    \/ ModalDismiss
    \/ SaveComplete
    \/ VaultCreate
    \/ VaultRename
    \/ VaultDelete
    \/ VaultFolderEvent
    \/ FileOpen
    \/ onload

Spec == Init /\ [][Next]_vars

\* ---------------------------------------------------------------- claims
Files == snapshot.files
Tracked(path) == getSnapshotFile(snapshot, path) # 0

\* C1: in every reachable state the snapshot holds at most one entry per
\* path, entries with status deleted included.
C1_Uniqueness ==
    \A i, j \in 1..Len(Files) : Files[i].path = Files[j].path => i = j

\* C2: for every rename the vault can report in a reachable state, the new
\* path has afterwards the status the old path had before, the old path is
\* untracked (new) afterwards, and no other entry changes.
C2_RenameMovesStatus ==
    \A oldPath \in vault, newPath \in Paths \ vault :
        LET after == handleFileRename(snapshot, oldPath, newPath)
        IN /\ getStatus(after, newPath) = getStatus(snapshot, oldPath)
           /\ getStatus(after, oldPath) = "new"
           /\ Len(after.files) = Len(Files)
           /\ \A i \in 1..Len(Files) :
                 Files[i].path # oldPath => after.files[i] = Files[i]

\* C3: a deleteSnapshot call that asks for confirmation ends in one of two
\* ways. The step in which the user cancels leaves the snapshot as it was
\* and resolves the promise with cancelled; the steps in which the user
\* confirms leave no snapshot, the promise resolves with deleted and
\* getToReviewFiles() is empty then.
C3_TwoOutcomes ==
    [][/\ last' = "onCancel" =>
            /\ snapshot' = snapshot
            /\ snapshot.present
            /\ completer' = "cancelled"
       /\ last' = "onDelete" => ~snapshot'.present
       /\ last' = "resolve" =>
            /\ ~snapshot'.present
            /\ completer' = "deleted"
            /\ getToReviewFiles(snapshot') = <<>>
       /\ (completer = "pending" /\ completer' \in {"cancelled", "deleted"})
            => last' \in {"onCancel", "resolve"}]_vars

C3_Witness ==
    /\ last = "onCancel"
    /\ completer = "cancelled"
    /\ getToReviewFiles(snapshot) # <<>>
    /\ durable.snapshot = snapshot

\* C4: however the user ends the confirmation dialog (Delete, Cancel or
\* dismissing it), the promise deleteSnapshot returned is fulfilled, with
\* deleted or cancelled.
C4_FulfilledOnce ==
    (dialog = "closed" /\ last \in {"onCancel", "resolve", "close"})
        => completer \in {"cancelled", "deleted"}

\* C5 as claimed: between the opening of the confirmation dialog and the
\* user's choice no step changes the snapshot.
C5_NoMutationWhileSuspended ==
    [][(dialog = "open" /\ dialog' = "open") => snapshot' = snapshot]_vars

\* C5 as amended: opening the dialog changes nothing in the snapshot, and
\* between the opening and the user's choice only the handlers of the
\* vault's rename and delete notifications change it: the snapshot stays
\* present with the same createdAt and as many entries, of which one has its
\* path rewritten (status kept) or its status set to deleted (path kept).
C5_OnlyVaultEventsWhileSuspended ==
    [][/\ (dialog = "closed" /\ dialog' = "open") => snapshot' = snapshot
       /\ (dialog = "open" /\ dialog' = "open" /\ snapshot' # snapshot) =>
            /\ last' \in {"handleFileRename", "handleFileDelete"}
            /\ snapshot'.present /\ snapshot.present
            /\ snapshot'.createdAt = snapshot.createdAt
            /\ Len(snapshot'.files) = Len(Files)
            /\ \E i \in 1..Len(Files) :
                 /\ \A j \in 1..Len(Files) :
                       j # i => snapshot'.files[j] = Files[j]
                 /\ \/ /\ last' = "handleFileRename"
                       /\ snapshot'.files[i].status = Files[i].status
                    \/ /\ last' = "handleFileDelete"
                       /\ snapshot'.files[i].path = Files[i].path
                       /\ snapshot'.files[i].status = "deleted"]_vars

C5_Witness ==
    /\ dialog = "open"
    /\ completer = "pending"
    /\ last = "handleFileDelete"
    /\ saves # <<>>
    /\ deletedFilesLength(snapshot) > 0

\* C6: at most one save is in flight at any time, and whenever no handler is
\* in progress the durably stored settings equal the settings in memory.
C6_WriteThrough ==
    /\ Len(saves) <= 1
    /\ Idle => durable = saveSettings(snapshot, showStatusBar)

\* C7: for every reachable state and every to-review entry whose path is no
\* longer a file of the vault, the failed open (focusFile) shows a notice and
\* leaves the snapshot that handleFileDelete leaves for that path.
C7_MissingOpenIsDelete ==
    \A i \in 1..Len(Files) :
        (Files[i].status = "to_review" /\ Files[i].path \notin vault) =>
            /\ focusFile(snapshot, vault, Files[i]).snapshot
                  = handleFileDelete(snapshot, Files[i].path)
            /\ focusFile(snapshot, vault, Files[i]).notices # <<>>

\* C8: an entry with status deleted keeps that status: no step that keeps
\* the entry (same position, same path, no entry removed) gives it the
\* status to_review or reviewed.
C8_DeletedIsTerminal ==
    [][\A i \in 1..Len(Files) :
          (/\ Files[i].status = "deleted"
           /\ snapshot'.present
           /\ Len(snapshot'.files) = Len(Files)
           /\ snapshot'.files[i].path = Files[i].path)
          => snapshot'.files[i].status = "deleted"]_vars

\* C9: no entry with status deleted is among getToReviewFiles() or is the
\* file openRandomFile picked; the displayed "To review" count is the number
\* of entries getToReviewFiles() returns, the displayed "Reviewed" count is
\* the number of entries with status reviewed, and "In snapshot" counts the
\* deleted entries with the others.
C9_DeletedExcluded ==
    /\ \A i \in 1..Len(getToReviewFiles(snapshot)) :
          getToReviewFiles(snapshot)[i].status = "to_review"
    /\ randomFile # NoPick => randomFile.status = "to_review"
    /\ snapshot.present =>
          /\ toReviewFilesLength(snapshot) = Len(getToReviewFiles(snapshot))
          /\ snapshotFilesLength(snapshot)
                = toReviewFilesLength(snapshot) + reviewedFilesLength(snapshot)
                    + Cardinality({i \in 1..Len(Files) :
                                      Files[i].status = "deleted"})

C9_Witness ==
    /\ last = "openRandomFile"
    /\ randomFile # NoPick
    /\ deletedFilesLength(snapshot) > 0
    /\ toReviewFilesLength(snapshot) = 1

\* C10: in every reachable state with a snapshot, completeReview on a path
\* without openNext: an untracked path is appended as one reviewed entry at
\* the end, the entries before it unchanged, with exactly one notice; a
\* tracked path has only its (first) entry set to reviewed, the number of
\* entries unchanged, with no notice.
C10_MarkReviewed ==
    snapshot.present =>
        \A path \in MdPaths :
            LET r == completeReview(snapshot, vault, path, FALSE, 1)
                i == getSnapshotFile(snapshot, path)
            IN /\ r.snapshot.present
               /\ r.snapshot.createdAt = snapshot.createdAt
               /\ ~Tracked(path) =>
                     /\ r.snapshot.files
                           = Files \o <<[path |-> path, status |-> "reviewed"]>>
                     /\ Len(r.notices) = 1
               /\ Tracked(path) =>
                     /\ Len(r.snapshot.files) = Len(Files)
                     /\ \A j \in 1..Len(Files) :
                           r.snapshot.files[j]
                              = IF j = i
                                THEN [path |-> path, status |-> "reviewed"]
                                ELSE Files[j]
                     /\ r.notices = <<>>

C10_Witness ==
    /\ last = "completeReview"
    /\ Len(notices) = 1
    /\ randomFile = NoPick
    /\ Len(Files) = 2
    /\ Files[2].status = "reviewed"
    /\ Files[1].status = "to_review"

\* C11: in every reachable state, the snapshot absent included, whenever
\* completeReview or unreviewFile shows its "File was added to snapshot"
\* notice for a path, the path is tracked afterwards with the status the
\* handler sets (reviewed, to_review).
C11_AddedNoticeMeansTracked ==
    \A path \in MdPaths :
        /\ \A openNext \in BOOLEAN :
              \A k \in RandomIndices(setStatus(snapshot, path, "reviewed")) :
                 LET r == completeReview(snapshot, vault, path, openNext, k)
                 IN (r.notices # <<>> /\ r.notices[1] =
                        "File was added to snapshot and marked as reviewed")
                       => getStatus(r.snapshot, path) = "reviewed"
        /\ LET u == unreviewFile(snapshot, path)
           IN (u.notices =
                 <<"File was added to snapshot and marked as not reviewed">>)
                 => getStatus(u.snapshot, path) = "to_review"

\* C12: in every reachable state openRandomFile, for every index the random
\* number can give, picks nothing exactly when getToReviewFiles is empty and
\* then opens no file; what it picks is the entry of getToReviewFiles at
\* that index, the index is within its bounds, the entry has the status
\* to_review and no other file is opened. The pick the handler that ran
\* last has made is a to_review entry as well.
C12_PicksToReviewOnly ==
    /\ \A k \in RandomIndices(snapshot) :
          LET r == openRandomFile(snapshot, vault, k)
              files == getToReviewFiles(snapshot)
          IN /\ r.randomFile = NoPick <=> files = <<>>
             /\ r.randomFile = NoPick => r.opened = NoFile
             /\ r.randomFile # NoPick =>
                   /\ k \in 1..Len(files)
                   /\ r.randomFile = files[k]
                   /\ r.randomFile.status = "to_review"
                   /\ \E i \in 1..Len(Files) : Files[i] = r.randomFile
                   /\ r.opened \in {NoFile, r.randomFile.path}
    /\ randomFile # NoPick =>
          /\ randomFile.status = "to_review"
          /\ opened \in {NoFile, randomFile.path}
    /\ randomFile = NoPick => opened = NoFile

C12_Witness ==
    /\ last = "openRandomFile"
    /\ randomFile # NoPick
    /\ opened = randomFile.path
    /\ Len(Files) = 2
    /\ Len(getToReviewFiles(snapshot)) = 1
    /\ reviewedFilesLength(snapshot) + deletedFilesLength(snapshot) = 1

\* The paths of a sequence of entries.
PathsOf(files) == {files[i].path : i \in 1..Len(files)}

\* C13: createSnapshot over the note list p1..pn gives a snapshot of exactly
\* n entries, entry i with path pi and status to_review, in the order of the
\* list: in every state the "Create snapshot" button leaves (the vault is
\* the one it listed; the button can be used from every initial vault) the
\* snapshot is that one.
C13_CreateInListingOrder ==
    last = "createSnapshot" =>
          /\ snapshot.present
          /\ snapshot.createdAt \in Times
          /\ Len(Files) = Cardinality(vault \cap MdPaths)
          /\ \A i \in 1..Len(Files) :
                /\ Files[i].path = getMarkdownFiles(vault)[i]
                /\ Files[i].status = "to_review"

C13_Witness ==
    /\ last = "createSnapshot"
    /\ Len(Files) = 2
    /\ Files[1].path = "a.md"
    /\ Files[2].path = "b.md"
    /\ "n.txt" \in vault

\* C14: addNewFiles is idempotent: in every reachable state, applying it
\* twice with the vault's listing gives the snapshot applying it once
\* gives; the state the button leaves is a fixed point of it.
C14_AddNewFilesIdempotent ==
    /\ addNewFiles(addNewFiles(snapshot, vault), vault)
          = addNewFiles(snapshot, vault)
    /\ last = "addNewFiles" => addNewFiles(snapshot, vault) = snapshot

\* The button has added an entry: the data on disk is still the one from
\* before it.
C14_Witness ==
    /\ last = "addNewFiles"
    /\ saves # <<>>
    /\ Len(Files) = Len(durable.snapshot.files) + 1
    /\ addNewFiles(snapshot, vault) = snapshot

\* C15: addNewFiles only appends: in every reachable state, with the
\* vault's listing, the entries before are a prefix of the entries after,
\* each appended entry is to_review and has the path of a note of the vault
\* that no entry had before, createdAt is kept, and without a snapshot the
\* snapshot stays absent.
C15_AddNewFilesAppends ==
        LET r == addNewFiles(snapshot, vault)
        IN /\ r.present = snapshot.present
           /\ r.createdAt = snapshot.createdAt
           /\ Len(r.files) >= Len(Files)
           /\ SubSeq(r.files, 1, Len(Files)) = Files
           /\ \A i \in (Len(Files) + 1)..Len(r.files) :
                 /\ r.files[i].status = "to_review"
                 /\ r.files[i].path \notin PathsOf(Files)
                 /\ r.files[i].path \in vault \cap MdPaths
           /\ ~snapshot.present => r = NoSnapshot

\* The button has appended b.md to a snapshot that tracked a.md.
C15_Witness ==
    /\ last = "addNewFiles"
    /\ saves # <<>>
    /\ Len(durable.snapshot.files) = 1
    /\ Len(Files) = 2
    /\ Files[1] = durable.snapshot.files[1]
    /\ Files[2] = [path |-> "b.md", status |-> "to_review"]

\* C16: in every reachable state, for every path tracked as reviewed,
\* unreviewFile gives it the status to_review and completeReview after it
\* the status reviewed again, and the snapshot is then the one before the
\* two: same entries, same order, same createdAt; neither shows a notice.
C16_RoundTrip ==
    \A path \in Paths :
        getStatus(snapshot, path) = "reviewed" =>
            LET u == unreviewFile(snapshot, path)
                r == completeReview(u.snapshot, vault, path, FALSE, 1)
            IN /\ getStatus(u.snapshot, path) = "to_review"
               /\ u.snapshot # snapshot
               /\ getStatus(r.snapshot, path) = "reviewed"
               /\ r.snapshot = snapshot
               /\ u.notices = <<>>
               /\ r.notices = <<>>

\* unreviewFile has run on the first of two entries, reviewed before (the
\* data on disk is still the one from before it), and completeReview on it
\* gives that snapshot back.
C16_Witness ==
    /\ last = "unreviewFile"
    /\ saves # <<>>
    /\ Len(Files) = 2
    /\ getStatus(durable.snapshot, Files[1].path) = "reviewed"
    /\ getStatus(snapshot, Files[1].path) = "to_review"
    /\ Files[2].path # Files[1].path
    /\ completeReview(snapshot, vault, Files[1].path, FALSE, 1).snapshot
          = durable.snapshot

\* C17: in every reachable state and for every path, getStatus is new
\* exactly when there is no snapshot or no entry has the path, it is
\* otherwise the status stored in an entry with the path, and it is
\* to_review exactly when an entry of getToReviewFiles has the path.
C17_StatusAgreesWithToReview ==
    \A path \in Paths :
        /\ getStatus(snapshot, path) = "new"
              <=> (~snapshot.present \/ path \notin PathsOf(Files))
        /\ getStatus(snapshot, path) # "new" =>
              \E i \in 1..Len(Files) :
                 Files[i] = [path |-> path,
                             status |-> getStatus(snapshot, path)]
        /\ getStatus(snapshot, path) = "to_review"
              <=> path \in PathsOf(getToReviewFiles(snapshot))

\* The status a command's check asks for.
CheckedStatus(id) == IF id = "unreview-file" THEN "reviewed" ELSE "to_review"

C19_HostEventsKeepSnapshot ==
    [][last' \in {"file-open", "create"} =>
          /\ snapshot' = snapshot
          /\ showStatusBar' = showStatusBar
          /\ durable' = durable
          /\ saves' = saves
          /\ \A p \in vault' \ vault :
                getStatus(snapshot', p) = getStatus(snapshot, p)]_vars

\* A note has been created next to a snapshot with entries, and has none.
C19_Witness ==
    /\ last = "create"
    /\ snapshot.present
    /\ Len(Files) >= 1
    /\ \E p \in vault \cap MdPaths : getStatus(snapshot, p) = "new"

\* C20: from a state without a snapshot, a step of openRandomFile and a
\* step of openFileStatusController show the notice "Vault review snapshot
\* is not created", pick and open no file, open no dialog, start no save
\* and leave the snapshot absent and the settings, the saved data, the
\* vault, the active file and the status bar as they are.
C20_NoSnapshotAborts ==
    [][(~snapshot.present
          /\ last' \in {"openRandomFile", "openFileStatusController"}) =>
          /\ notices' = <<"Vault review snapshot is not created">>
          /\ opened' = NoFile
          /\ randomFile' = NoPick
          /\ dialog' = "closed"
          /\ saves' = <<>>
          /\ snapshot' = NoSnapshot
          /\ UNCHANGED <<snapshot, showStatusBar, durable, vault, active,
                         statusBar, dialog, saves>>]_vars

\* openRandomFile has run without a snapshot, next to notes in the vault.
C20_Witness ==
    /\ last = "openRandomFile"
    /\ ~snapshot.present
    /\ notices = <<"Vault review snapshot is not created">>
    /\ vault \cap MdPaths # {}
    /\ active \in MdPaths

\* C21 as stated: createSnapshot has no precondition: in every reachable
\* state in which the settings tab can be used, a snapshot existing or not,
\* "Create snapshot" can be invoked.
C21_CreateAlwaysOffered == UiFree => showsCreateSnapshot(snapshot)

\* C21 amended: "Create snapshot" is offered exactly while there is no
\* snapshot, so every step of createSnapshot starts without a snapshot and
\* ends with a fresh one (one to_review entry per note of the vault); no
\* step of it replaces a snapshot that exists.
C21_CreateOnlyWithoutSnapshot ==
    [][/\ showsCreateSnapshot(snapshot) <=> ~snapshot.present
       /\ last' = "createSnapshot" =>
             /\ ~snapshot.present
             /\ snapshot'.present
             /\ Len(snapshot'.files) = Cardinality(vault \cap MdPaths)
             /\ \A i \in 1..Len(snapshot'.files) :
                   snapshot'.files[i].status = "to_review"]_vars

\* The button has made a snapshot; the data on disk still has none.
C21_Witness ==
    /\ last = "createSnapshot"
    /\ saves # <<>>
    /\ ~durable.snapshot.present
    /\ snapshot.present
    /\ Len(Files) >= 1
    /\ ~showsCreateSnapshot(snapshot)

\* C22: in every reachable state left by completeReview with openNext, the
\* file opened as the next one does not have the path of the file that was
\* marked reviewed (the active note; the step leaves it the active one).
C22_NextIsAnotherFile ==
    (last = "completeReview" /\ opened # NoFile) =>
        opened # getActiveFile(active)

\* C23: in every reachable state left by "Add all new files to snapshot",
\* every note of the vault has the status to_review or reviewed, a note
\* made again at a path marked deleted included.
C23_AddedNotesReviewable ==
    last = "addNewFiles" =>
        \A p \in vault \cap MdPaths :
            getStatus(snapshot, p) \in {"to_review", "reviewed"}

\* C24: in every reachable state with a snapshot the "Not in snapshot"
\* count the settings tab shows is not negative.
C24_NotInSnapshotNotNegative ==
    snapshot.present => notInSnapshotLength(snapshot, vault) >= 0

\* C25: in every reachable state with a snapshot the divisors of the two
\* percentages are at least 1: the number of entries (deleted percentage)
\* and the number of entries not deleted (reviewed percentage).
C25_DivisorsNotZero ==
    snapshot.present =>
        /\ snapshotFilesLength(snapshot) >= 1
        /\ snapshotFilesLength(snapshot) - deletedFilesLength(snapshot) >= 1

\* ------------------------------------------------- the earlier version
\* The earlier version of the plugin (lines 1-660), as far as the display
\* of the status bar item goes: its file-open handler, the status bar
\* toggle, "Create snapshot", "Add all new files to snapshot", the two
\* review commands without openNext and the menu of the status bar item,
\* deleteSnapshot with its dialog, and onload. Each step is a handler run
\* to its end, its saveData call completed: the host delivers the next
\* event after that.

\* StatusBar.update, earlier version: displayed whenever there is a
\* snapshot and an active file, whatever showStatusBar holds.
updateEarly(snap, act) ==
    IF ~snap.present THEN setIsVisible(snap, FALSE)
    ELSE IF act = NoFile THEN setIsVisible(snap, FALSE)
         ELSE setIsVisible(snap, TRUE)

\* The checkCallbacks of the earlier version.
checkCallbackEarly(id, snap, act) ==
    IF id = "unreview-file"
    THEN act # NoFile /\ getStatus(snap, act) = "reviewed"
    ELSE \E i \in 1..Len(getToReviewFiles(snap)) :
            getToReviewFiles(snap)[i].path = act

\* The handler has awaited saveSettings: the settings are on disk.
SavedEarly ==
    /\ saves' = <<>>
    /\ durable' = saveSettings(snapshot', showStatusBar')

\* onload: the constructor of StatusBar calls update, then
\* setIsVisible(showStatusBar) is called.
InitEarly ==
    /\ vault \in SUBSET Paths
    /\ active = NoFile
    /\ snapshot = DEFAULT_SETTINGS.snapshot
    /\ showStatusBar = DEFAULT_SETTINGS.showStatusBar
    /\ statusBar = setIsVisible(DEFAULT_SETTINGS.snapshot,
                                DEFAULT_SETTINGS.showStatusBar)
    /\ dialog = "closed"
    /\ completer = "none"
    /\ saves = <<>>
    /\ durable = DEFAULT_SETTINGS
    /\ last = "onload"
    /\ notices = <<>>
    /\ randomFile = NoPick
    /\ opened = NoFile

onloadEarly ==
    /\ dialog = "closed"
    /\ active' = NoFile
    /\ snapshot' = durable.snapshot
    /\ showStatusBar' = durable.showStatusBar
    /\ statusBar' = setIsVisible(snapshot', showStatusBar')
    /\ Ran("onload", <<>>)
    /\ UNCHANGED <<vault, dialog, completer, saves, durable>>

\* workspace "file-open".
FileOpenEarly ==
    /\ dialog = "closed"
    /\ \E file \in (vault \cup {NoFile}) \ {active} : active' = file
    /\ statusBar' = updateEarly(snapshot, active')
    /\ Ran("file-open", <<>>)
    /\ UNCHANGED <<vault, snapshot, showStatusBar, dialog, completer, saves,
                   durable>>

\* Toggle "Status bar": setIsVisible(value), then saveSettings.
ToggleStatusBarEarly ==
    /\ dialog = "closed"
    /\ showStatusBar' = ~showStatusBar
    /\ statusBar' = setIsVisible(snapshot, showStatusBar')
    /\ Ran("toggleStatusBar", <<>>)
    /\ UNCHANGED <<vault, active, snapshot, dialog, completer>>
    /\ SavedEarly

\* Button "Create snapshot".
CreateSnapshotEarly ==
    /\ dialog = "closed"
    /\ showsCreateSnapshot(snapshot)
    /\ \E now \in Times : snapshot' = createSnapshot(vault, now)
    /\ statusBar' = updateEarly(snapshot', active)
    /\ Ran("createSnapshot", <<>>)
    /\ UNCHANGED <<vault, active, showStatusBar, dialog, completer>>
    /\ SavedEarly

\* Button "Add all new files to snapshot".
AddNewFilesEarly ==
    /\ dialog = "closed"
    /\ snapshot.present
    /\ snapshot' = addNewFiles(snapshot, vault)
    /\ Len(snapshot'.files) <= MaxFiles
    /\ statusBar' = updateEarly(snapshot', active)
    /\ Ran("addNewFiles", <<>>)
    /\ UNCHANGED <<vault, active, showStatusBar, dialog, completer>>
    /\ SavedEarly

\* completeReview() on the active file, openNext left false.
CompleteReviewEarly ==
    /\ active # NoFile
    /\ snapshot' = setStatus(snapshot, active, "reviewed")
    /\ Len(snapshot'.files) <= MaxFiles
    /\ statusBar' = updateEarly(snapshot', active)
    /\ Ran("completeReview",
           addedNotice(snapshot, active,
                       "File was added to snapshot and marked as reviewed"))
    /\ UNCHANGED <<vault, active, showStatusBar, dialog, completer>>
    /\ SavedEarly

\* unreviewFile() on the active file.
UnreviewFileEarly ==
    /\ active # NoFile
    /\ snapshot' = setStatus(snapshot, active, "to_review")
    /\ Len(snapshot'.files) <= MaxFiles
    /\ statusBar' = updateEarly(snapshot', active)
    /\ Ran("unreviewFile",
           addedNotice(snapshot, active,
                   "File was added to snapshot and marked as not reviewed"))
    /\ UNCHANGED <<vault, active, showStatusBar, dialog, completer>>
    /\ SavedEarly

\* "Review file"
CommandCompleteReviewEarly ==
    /\ dialog = "closed"
    /\ checkCallbackEarly("complete-review", snapshot, active)
    /\ CompleteReviewEarly

\* "Unreview file"
CommandUnreviewFileEarly ==
    /\ dialog = "closed"
    /\ checkCallbackEarly("unreview-file", snapshot, active)
    /\ UnreviewFileEarly

\* StatusBar.onClick, items "Reviewed" and "Not reviewed".
StatusBarReviewedEarly ==
    /\ dialog = "closed"
    /\ statusBar
    /\ CompleteReviewEarly

StatusBarNotReviewedEarly ==
    /\ dialog = "closed"
    /\ statusBar
    /\ UnreviewFileEarly

\* The trash button: deleteSnapshot() opens the dialog.
deleteSnapshotEarly ==
    /\ dialog = "closed"
    /\ snapshot.present
    /\ dialog' = "open"
    /\ completer' = "pending"
    /\ Ran("deleteSnapshot", <<>>)
    /\ UNCHANGED <<vault, active, snapshot, showStatusBar, statusBar, saves,
                   durable>>

\* Button "Delete" of the dialog: onDelete.
onDeleteEarly ==
    /\ dialog = "open"
    /\ snapshot' = onDelete(snapshot)
    /\ statusBar' = updateEarly(snapshot', active)
    /\ completer' = "none"
    /\ dialog' = "closed"
    /\ Ran("onDelete", <<>>)
    /\ UNCHANGED <<vault, active, showStatusBar>>
    /\ SavedEarly

\* Button "Cancel" of the dialog: onCancel.
onCancelEarly ==
    /\ dialog = "open"
    /\ completer' = "none"
    /\ dialog' = "closed"
    /\ Ran("onCancel", <<>>)
    /\ UNCHANGED <<vault, active, snapshot, showStatusBar, statusBar, saves,
                   durable>>

NextEarly ==
    \/ onloadEarly
    \/ FileOpenEarly
    \/ ToggleStatusBarEarly
    \/ CreateSnapshotEarly
    \/ AddNewFilesEarly
    \/ CommandCompleteReviewEarly
    \/ CommandUnreviewFileEarly
    \/ StatusBarReviewedEarly
    \/ StatusBarNotReviewedEarly
    \/ deleteSnapshotEarly
    \/ onDeleteEarly
    \/ onCancelEarly

SpecEarly == InitEarly /\ [][NextEarly]_vars

\* C26: in every reachable state in which showStatusBar is off, the status
\* bar item is not displayed.
C26_SettingRespected == ~showStatusBar => ~statusBar

====
